---- MODULE Spec2Model ----
(***************************************************************************)
(* anyvec: a type-erased growable array (AnyVec), its per-type operation   *)
(* table (VTable) and its non-owning element view (AnyRef), src/lib.rs.    *)
(*                                                                         *)
(* The heap is modelled explicitly: a buffer is a sequence of slots behind *)
(* a pointer, a typed Vec<T> is the triple (ptr, len, cap) plus T, and the *)
(* AnyVec is the same triple plus a vtable.  Element destructors append to *)
(* chan, like tests::HasDrop does.                                         *)
(***************************************************************************)
EXTENDS Integers, Sequences, FiniteSets, TLC

VARIABLES
    self,      \* the AnyVec: [data, length, capacity, vtable]
    mem,       \* the heap: pointer -> [alloc, slots]
    chan,      \* destruction log: uid of every element whose destructor ran
    state,     \* "live", "busy" (inside a push or truncate), "panicked", "aborted",
               \* "consumed" (into_vec succeeded), "dropped", "released"
    out,       \* the Vec<T> returned by into_vec
    view,      \* the Option<AnyRef> returned by the last get/first
    panic,     \* the panic raised so far ("none" when none)
    nextId,    \* next fresh element identity
    dropVecs,  \* how many times impl Drop for AnyVec ran (it calls drop_vec)
    released,  \* how many times a whole buffer was dropped (drop_vec, the result's drop)
    faults,    \* memory faults seen: "double_free", "dead_drop", "uninit_drop", "oob_read"
    hist,      \* history: the constructor, its input, the values pushed so far
    cmp,       \* the last comparison of the view: its operands and what it returned
    op         \* the push or truncate in progress, when its steps are taken one by one

vars == <<self, mem, chan, state, out, view, panic, nextId, dropVecs, released, faults, hist,
          cmp, op>>

----------------------------------------------------------------------------
(* Bounds of the model *)

\* how many elements are ever created (the initial ones and the pushed ones)
MaxElems == 2
\* largest argument of reserve
MaxReserve == 2
\* how many heap addresses there are
NumPtrs == 2

\* longest Vec handed to from_vec
MaxInitLen == MaxElems
\* spare capacity (capacity - len) of a Vec handed to from_vec
MaxInitSpare == 1
\* largest capacity an allocation is given: what the last push may ask for
MaxCap == 2 * MaxElems - 1
\* a far-out-of-range index
FarIndex == MaxCap + 5

----------------------------------------------------------------------------
(* Element types and values *)

\* the element types the tests instantiate the container with
Types == {"u64", "f64", "HasDrop"}

\* f64::NAN, the one value that is not equal to itself
NaN == -1

\* the values of each type the containers hold; a HasDrop value is its id field.
\* Elements are told apart by their identity, so one value per type is enough.
Vals(T) == CASE T = "u64" -> {3} [] T = "f64" -> {3} [] T = "HasDrop" -> {1} [] T = "unit" -> {0}

\* std::mem::size_of::<T>(); the unit type () is zero-sized
size_of(T) == CASE T = "u64" -> 8 [] T = "f64" -> 8 [] T = "HasDrop" -> 16 [] T = "unit" -> 0

\* whether T has drop glue (only HasDrop implements Drop)
needs_drop(T) == T = "HasDrop"

\* T's own PartialEq on two values of T
PartialEq(T, a, b) == IF T = "f64" THEN a = b /\ a # NaN ELSE a = b

\* a value in memory: its type, its value, a ghost identity, whether it is live
Elem(T, v, id) == [ty |-> T, val |-> v, uid |-> id, live |-> TRUE]

\* a slot no value was ever written to
Uninit == [ty |-> "uninit", val |-> 0, uid |-> 0, live |-> FALSE]

\* the identity logged when a destructor runs over bytes that are no value of its type
Garbage == 0

Min(a, b) == IF a < b THEN a ELSE b

----------------------------------------------------------------------------
(* The heap and Vec<T> *)

Ptrs == 1 .. NumPtrs

\* NonNull::dangling(), the pointer of a Vec of capacity 0
Dangling == 0

Unalloc == [alloc |-> FALSE, slots |-> <<>>]

Buffer(slots) == [alloc |-> TRUE, slots |-> slots]

\* a typed vector: Vec<ty> with its raw parts
Vec(T, p, l, c) == [ty |-> T, ptr |-> p, len |-> l, cap |-> c]

NoVec == Vec("none", Dangling, 0, 0)

\* the slots of the buffer behind p (none behind the dangling pointer)
SlotsAt(m, p) == IF p \in Ptrs THEN m[p].slots ELSE <<>>

\* the elements of a vector, in index order
VecElems(m, v) == [i \in 1 .. v.len |-> SlotsAt(m, v.ptr)[i]]

\* the slot at 1-based position i, or uninitialised memory outside the buffer
SlotOr(slots, i) == IF i \in 1 .. Len(slots) THEN slots[i] ELSE Uninit

\* what the undefined behaviour of running a destructor over foreign bytes can do
UBOutcomes == {"none", "garbage"}

\* what chan receives when T's destructor runs over slot s. A value of T logs its
\* identity. A value of another type is not destroyed as itself: with no drop glue
\* on either side nothing distinguishes that from its own (empty) destructor, a
\* forgotten value with drop glue is never logged, and T's glue over foreign or
\* uninitialised bytes is undefined (ub picks the outcome).
DropEvent(T, s, ub) ==
    IF s.ty = T \/ (s.ty # "uninit" /\ ~needs_drop(T) /\ ~needs_drop(s.ty))
    THEN <<s.uid>>
    ELSE IF needs_drop(T) /\ ub = "garbage" THEN <<Garbage>> ELSE <<>>

\* std::ptr::drop_in_place::<[T]>: the events of slots lo..hi, in index order
RECURSIVE DropEvents(_, _, _, _, _)
DropEvents(T, slots, lo, hi, ub) ==
    IF lo > hi THEN <<>>
    ELSE DropEvent(T, SlotOr(slots, lo), ub) \o DropEvents(T, slots, lo + 1, hi, ub)

\* the faults of dropping slots lo..hi
DropFaults(slots, lo, hi) ==
    {"uninit_drop" : i \in {j \in lo .. hi : SlotOr(slots, j).ty = "uninit"}}
    \cup {"dead_drop" : i \in {j \in lo .. hi : SlotOr(slots, j).ty # "uninit" /\ ~SlotOr(slots, j).live}}

\* the slots with positions lo..hi marked dropped
Killed(slots, lo, hi) ==
    [i \in 1 .. Len(slots) |-> IF i \in lo .. hi THEN [slots[i] EXCEPT !.live = FALSE] ELSE slots[i]]

\* the allocator's free: releasing an address that is not allocated is a double free
Dealloc(m, p) ==
    [mem |-> IF p \in Ptrs THEN [m EXCEPT ![p] = Unalloc] ELSE m,
     faults |-> IF p \in Ptrs /\ m[p].alloc THEN {} ELSE {"double_free"}]

\* <Vec<T> as Drop>::drop followed by RawVec's: the len elements are dropped in
\* index order, then the allocation is released when cap > 0
Vec_drop(m, v, ub) ==
    LET slots == SlotsAt(m, v.ptr)
        m1 == IF v.ptr \in Ptrs
              THEN [m EXCEPT ![v.ptr].slots = Killed(slots, 1, v.len)]
              ELSE m
        d == IF v.cap > 0 THEN Dealloc(m1, v.ptr) ELSE [mem |-> m1, faults |-> {}]
    IN  IF size_of(v.ty) = 0
        THEN [mem |-> m, log |-> <<>>, faults |-> {}]
        ELSE [mem |-> d.mem,
              log |-> DropEvents(v.ty, slots, 1, v.len, ub),
              faults |-> DropFaults(slots, 1, v.len) \cup d.faults]

\* the addresses the allocator may return for a (re)allocation of the buffer at p:
\* a free address (the lowest stands for any of them), or p itself when an existing
\* block grows in place
AllocChoices(m, p, cap) ==
    LET free == {q \in Ptrs : ~m[q].alloc}
    IN  {q \in free : \A q2 \in free : q <= q2} \cup (IF cap > 0 THEN {p} ELSE {})

\* Vec::<T>::reserve(additional): nothing when cap - len >= additional; otherwise
\* the buffer is reallocated to nc >= len + additional slots at np, its bytes
\* copied and the old block released. The growth policy is std's: nc, np are the
\* allocation's choices.
Vec_reserve(m, v, additional, nc, np) ==
    IF v.cap - v.len >= additional THEN [mem |-> m, vec |-> v]
    ELSE LET old == SlotsAt(m, v.ptr)
             grown == [i \in 1 .. nc |-> SlotOr(old, i)]
             m1 == IF v.cap > 0 THEN Dealloc(m, v.ptr).mem ELSE m
         IN  [mem |-> [m1 EXCEPT ![np] = Buffer(grown)],
              vec |-> Vec(v.ty, np, v.len, nc)]

----------------------------------------------------------------------------
(* mod vtable *)

\* VTable::new::<T>(); the function pointers are the T-instances below
VTable_new(T) == [id |-> T, display_name |-> T, size |-> size_of(T)]

\* <T as StaticVTable>::VTABLE
VTABLE(T) == VTable_new(T)

\* mutant: the identity comparison compares the sizes instead
is_by_size(vt, T) == size_of(T) = vt.size

is(vt, T) == T = vt.id

typecheck(vt, T) == is(vt, T)

\* VTable::assert_typecheck::<T>: TRUE when it panics
assert_typecheck_panics(vt, T) == ~typecheck(vt, T)

\* impl PartialEq for VTable
VTable_eq(a, b) == a.id = b.id

\* an address: a byte offset into the buffer at ptr
Addr(p, off) == [ptr |-> p, off |-> off]

\* the 1-based slot position of a byte offset, for elements of type T
SlotIx(T, off) == (off \div size_of(T)) + 1

\* vtable::reserve::<T>
vtable_reserve(T, m, newsize, data, length, capacity, nc, np) ==
    LET v == Vec(T, data, length, capacity)
        r == Vec_reserve(m, v, newsize, nc, np)
    IN  [mem |-> r.mem, data |-> r.vec.ptr, length |-> r.vec.len, capacity |-> r.vec.cap]

\* vtable::drop_vec::<T>: the buffer is rebuilt as a Vec<T> and dropped at once
vtable_drop_vec(T, m, data, length, capacity, ub) ==
    Vec_drop(m, Vec(T, data, length, capacity), ub)

\* vtable::drop_slice::<T>: drop_in_place of length elements starting at addr
vtable_drop_slice(T, m, addr, length, ub) ==
    LET slots == SlotsAt(m, addr.ptr)
        lo == SlotIx(T, addr.off)
        hi == lo + length - 1
    IN  [mem |-> IF addr.ptr \in Ptrs
                 THEN [m EXCEPT ![addr.ptr].slots = Killed(slots, lo, hi)]
                 ELSE m,
         log |-> DropEvents(T, slots, lo, hi, ub),
         faults |-> DropFaults(slots, lo, hi)]

\* the bytes a copy writes: from offset lo up to (not including) hi behind ptr
Extent(p, lo, hi) == [ptr |-> p, lo |-> lo, hi |-> hi]

\* mutant: as many bytes are copied as the value has
vtable_mv_value_size(T, m, value, dest) ==
    [mem |-> [m EXCEPT ![dest.ptr].slots[SlotIx(T, dest.off)] = value],
     written |-> Extent(dest.ptr, dest.off, dest.off + size_of(value.ty)),
     faults |-> {}]

\* vtable::mv::<T>: size_of::<T>() bytes are copied from the value at src to dest;
\* a source value shorter than that is read past its end
vtable_mv(T, m, value, dest) ==
    [mem |-> [m EXCEPT ![dest.ptr].slots[SlotIx(T, dest.off)] = value],
     written |-> Extent(dest.ptr, dest.off, dest.off + size_of(T)),
     faults |-> IF size_of(value.ty) < size_of(T) THEN {"oob_read"} ELSE {}]

\* the bytes of a value in memory: 0u64 and 0.0f64 are the same eight zero bytes
Bytes(e) ==
    IF e.ty \in {"u64", "f64"} /\ e.val = 0 THEN <<"zero">> ELSE <<e.ty, e.val>>

\* vtable::eq::<T> on two values in memory: T's equality on values of T; bytes of
\* another type are compared as they are
vtable_eq(T, a, b) ==
    IF a.ty = T /\ b.ty = T THEN PartialEq(T, a.val, b.val)
    ELSE Bytes(a) = Bytes(b)

----------------------------------------------------------------------------
(* AnyRef *)

\* the pointer of a value that lives outside every buffer (a caller's local)
Local == -1

NoVTable == [id |-> "none", display_name |-> "none", size |-> 0]

\* AnyRef::new::<T>(&val): a view of a caller's value with T's table
AnyRef_new(T, val) == [data |-> Addr(Local, 0), vtable |-> VTABLE(T), local |-> val]

\* Option<AnyRef>
None == [some |-> FALSE, data |-> Addr(Dangling, 0), vtable |-> NoVTable, local |-> Uninit]

Some(r) == [some |-> TRUE, data |-> r.data, vtable |-> r.vtable, local |-> r.local]

\* the value a view's address refers to
Deref(m, r) ==
    IF r.data.ptr = Local THEN r.local
    ELSE SlotOr(SlotsAt(m, r.data.ptr), SlotIx(r.vtable.id, r.data.off))

\* a call of the table's eq primitive: whose instance, on which two addresses
EqCall(T, lhs, rhs) == [eq |-> T, lhs |-> lhs, rhs |-> rhs]

\* mutant: the tables are not compared before the eq primitive is called
AnyRef_cmp_unchecked(m, a, b) ==
    [result |-> vtable_eq(a.vtable.id, Deref(m, a), Deref(m, b)),
     calls |-> <<EqCall(a.vtable.id, a.data, b.data)>>]

\* impl PartialEq<AnyRef> for AnyRef: what it returns and the calls of the
\* table's eq primitive it makes
AnyRef_cmp(m, a, b) ==
    IF ~VTable_eq(a.vtable, b.vtable) THEN [result |-> FALSE, calls |-> <<>>]
    ELSE [result |-> vtable_eq(a.vtable.id, Deref(m, a), Deref(m, b)),
          calls |-> <<EqCall(a.vtable.id, a.data, b.data)>>]

AnyRef_eq(m, a, b) == AnyRef_cmp(m, a, b).result

\* impl PartialEq<&T> for AnyRef: other is a caller's value of type T
AnyRef_cmp_ref(m, a, T, other) ==
    IF ~VTable_eq(a.vtable, VTABLE(T)) THEN [result |-> FALSE, calls |-> <<>>]
    ELSE [result |-> vtable_eq(a.vtable.id, Deref(m, a), other),
          calls |-> <<EqCall(a.vtable.id, a.data, Addr(Local, 0))>>]

\* the derived PartialEq of Option<AnyRef>
Option_eq(m, a, b) ==
    IF a.some /\ b.some THEN AnyRef_eq(m, a, b) ELSE a.some = b.some

----------------------------------------------------------------------------
(* AnyVec *)

\* AnyVec::from_vec::<T>: the Vec's raw parts are taken over, nothing is copied
from_vec(T, vec) ==
    [data |-> vec.ptr, length |-> vec.len, capacity |-> vec.cap, vtable |-> VTABLE(T)]

\* AnyVec::new::<T>
new(T) == from_vec(T, Vec(T, Dangling, 0, 0))

\* AnyVec::assert_typecheck::<T>: TRUE when it panics
AnyVec_assert_typecheck_panics(s, T) == assert_typecheck_panics(s.vtable, T)

\* mutant: the vector is rebuilt with the capacity as its length
typed_len_cap(s, T) == Vec(T, s.data, s.capacity, s.capacity)

\* AnyVec::typed::<T>
typed(s, T) == Vec(T, s.data, s.length, s.capacity)

\* mutant: self is not forgotten, so its destructor runs as well
into_vec_no_forget(s, T) ==
    IF AnyVec_assert_typecheck_panics(s, T)
    THEN [panic |-> "TypeMismatch", forgot |-> FALSE, vec |-> NoVec]
    ELSE [panic |-> "none", forgot |-> FALSE, vec |-> typed(s, T)]

\* AnyVec::into_vec::<T>: the type check, then the buffer leaves as a Vec<T> and
\* self is forgotten (forgot); a panic unwinds and drops self instead
into_vec(s, T) ==
    IF AnyVec_assert_typecheck_panics(s, T)
    THEN [panic |-> "TypeMismatch", forgot |-> FALSE, vec |-> NoVec]
    ELSE [panic |-> "none", forgot |-> TRUE, vec |-> typed(s, T)]

\* AnyVec::at
at(s, n) ==
    [panics |-> n >= s.capacity, addr |-> Addr(s.data, n * s.vtable.size)]

\* mutant: the capacity the table returns is not stored
reserve_stale_capacity(s, m, size, nc, np) ==
    LET r == vtable_reserve(s.vtable.id, m, size, s.data, s.length, s.capacity, nc, np)
    IN  [self |-> [s EXCEPT !.data = r.data, !.length = r.length],
         mem |-> r.mem]

\* AnyVec::reserve
reserve(s, m, size, nc, np) ==
    LET r == vtable_reserve(s.vtable.id, m, size, s.data, s.length, s.capacity, nc, np)
    IN  [self |-> [s EXCEPT !.data = r.data, !.length = r.length, !.capacity = r.capacity],
         mem |-> r.mem]

\* mutant: the value is written to the slot before the last element
push_off_by_one(s, m, value, nc, np) ==
    LET r == reserve(s, m, s.length + 1, nc, np)
        s1 == r.self
        dest == at(s1, IF s1.length > 0 THEN s1.length - 1 ELSE 0)
        w == vtable_mv(s1.vtable.id, r.mem, value, dest.addr)
    IN  [self |-> [s1 EXCEPT !.length = @ + 1], mem |-> w.mem, panic |-> "none",
         log |-> <<>>, faults |-> w.faults]

\* AnyVec::push::<T>(value): value carries its own type T; a panic before the
\* value is forgotten drops the value on the way out
push(s, m, value, nc, np) ==
    LET r == reserve(s, m, s.length + 1, nc, np)
        s1 == r.self
        dest == at(s1, s1.length)
        w == vtable_mv(s1.vtable.id, r.mem, value, dest.addr)
    IN  IF ~(s1.capacity > s1.length)
        THEN [self |-> s1, mem |-> r.mem, panic |-> "assert", log |-> <<value.uid>>, faults |-> {}]
        ELSE IF dest.panics
        THEN [self |-> s1, mem |-> r.mem, panic |-> "at", log |-> <<value.uid>>, faults |-> {}]
        ELSE [self |-> [s1 EXCEPT !.length = @ + 1], mem |-> w.mem, panic |-> "none",
              log |-> <<>>, faults |-> w.faults]

\* mutant: the buffer is shrunk to the new length as well
truncate_shrink(s, m, length, ub) ==
    IF length > s.length THEN [self |-> s, mem |-> m, log |-> <<>>, faults |-> {}]
    ELSE LET ndropped == s.length - length
             d == vtable_drop_slice(s.vtable.id, m, Addr(s.data, length * s.vtable.size), ndropped, ub)
         IN  [self |-> [s EXCEPT !.length = length, !.capacity = length], mem |-> d.mem,
              log |-> d.log, faults |-> d.faults]

\* mutant: the length is lowered but the elements cut off are not dropped
truncate_no_drop(s, m, length, ub) ==
    IF length > s.length THEN [self |-> s, mem |-> m, log |-> <<>>, faults |-> {}]
    ELSE [self |-> [s EXCEPT !.length = length], mem |-> m, log |-> <<>>, faults |-> {}]

\* AnyVec::truncate
truncate(s, m, length, ub) ==
    IF length > s.length THEN [self |-> s, mem |-> m, log |-> <<>>, faults |-> {}]
    ELSE LET ndropped == s.length - length
             d == vtable_drop_slice(s.vtable.id, m, Addr(s.data, length * s.vtable.size), ndropped, ub)
         IN  [self |-> [s EXCEPT !.length = length], mem |-> d.mem, log |-> d.log,
              faults |-> d.faults]

\* AnyVec::clear
clear(s, m, ub) == truncate(s, m, 0, ub)

\* mutant: the view is of the slot after the one asked for
get_next_slot(s, index) ==
    IF index >= s.length THEN None
    ELSE Some([data |-> at(s, index + 1).addr, vtable |-> s.vtable, local |-> Uninit])

\* AnyVec::get
get(s, index) ==
    IF index >= s.length THEN None
    ELSE Some([data |-> at(s, index).addr, vtable |-> s.vtable, local |-> Uninit])

\* whether get's call of at panics
get_panics(s, index) == index < s.length /\ at(s, index).panics

\* AnyVec::first
first(s) == get(s, 0)

\* impl Drop for AnyVec
drop(s, m, ub) == vtable_drop_vec(s.vtable.id, m, s.data, s.length, s.capacity, ub)

----------------------------------------------------------------------------
(* The state machine: one container from construction to the end of its buffer *)

\* the typed vectors a caller may hand to from_vec::<T>, with their buffers:
\* len values of T with identities 1..len, and some spare capacity
InitVecs(T) ==
    {[vec |-> Vec(T, IF Len(vs) + k = 0 THEN Dangling ELSE 1, Len(vs), Len(vs) + k),
      elems |-> [i \in 1 .. Len(vs) |-> Elem(T, vs[i], i)]] :
        vs \in UNION {[1 .. l -> Vals(T)] : l \in 0 .. MaxInitLen},
        k \in {0, MaxInitSpare}}

\* no operation is in progress
Idle == [pc |-> "idle", value |-> Uninit, size |-> 0, next |-> 0, hi |-> 0, panicked |-> FALSE]

\* no comparison was made yet
NoCmp == [op |-> "none", lhs |-> None, rhs |-> None, result |-> FALSE, calls |-> <<>>]

\* the heap holding exactly the buffer of c
HeapOf(c) ==
    [p \in Ptrs |->
        IF p = c.vec.ptr /\ c.vec.cap > 0
        THEN Buffer([i \in 1 .. c.vec.cap |-> SlotOr(c.elems, i)])
        ELSE Unalloc]

\* the state right after self was constructed by name from the vector c
Constructed(name, T, c, s) ==
    /\ self = s
    /\ mem = HeapOf(c)
    /\ chan = <<>>
    /\ state = "live"
    /\ out = NoVec
    /\ view = None
    /\ panic = "none"
    /\ nextId = c.vec.len + 1
    /\ dropVecs = 0
    /\ released = 0
    /\ faults = {}
    /\ hist = [ctor |-> name, vec |-> c.vec, elems |-> c.elems, pushed |-> <<>>]
    /\ cmp = NoCmp
    /\ op = Idle

\* let dynamic = AnyVec::new::<T>()  or  AnyVec::from_vec::<T>(c)
Init ==
    \E T \in Types :
        \/ Constructed("new", T, [vec |-> Vec(T, Dangling, 0, 0), elems |-> <<>>], new(T))
        \/ \E c \in InitVecs(T) :
              Constructed("from_vec", T, c, from_vec(T, c.vec))

Max(a, b) == IF a > b THEN a ELSE b

\* the capacities a growth by additional may end with: the exact fit the contract
\* of Vec::reserve asks for, or std's amortised doubling
GrowCaps(s, additional) ==
    IF s.capacity - s.length >= additional THEN {s.capacity}
    ELSE {s.length + additional,
          Min(MaxCap, Max(2 * s.capacity, s.length + additional))}

\* the addresses it may end at

GrowPtrs(s, m, additional) ==
    IF s.capacity - s.length >= additional THEN {s.data}
    ELSE AllocChoices(m, s.data, s.capacity)

\* dynamic.push::<T>(v)
Push(T, v) ==
    /\ state = "live"
    /\ ~view.some
    /\ nextId <= MaxElems
    /\ \E nc \in GrowCaps(self, self.length + 1), np \in GrowPtrs(self, mem, self.length + 1) :
          LET r == push(self, mem, Elem(T, v, nextId), nc, np)
          IN  /\ self' = r.self
              /\ mem' = r.mem
              /\ chan' = chan \o r.log
              /\ panic' = r.panic
              /\ state' = IF r.panic = "none" THEN "live" ELSE "panicked"
              /\ faults' = faults \cup r.faults
    /\ nextId' = nextId + 1
    /\ view' = None
    /\ hist' = [hist EXCEPT !.pushed = Append(@, Elem(T, v, nextId))]
    /\ UNCHANGED <<out, dropVecs, released, cmp, op>>

\* dynamic.reserve(n)
Reserve(n) ==
    /\ state = "live"
    /\ ~view.some
    /\ self.capacity - self.length >= n \/ self.length + n <= MaxCap
    /\ view' = None
    /\ UNCHANGED <<chan, state, out, panic, nextId, dropVecs, released, faults, hist, cmp, op>>
    /\ \E nc \in GrowCaps(self, n), np \in GrowPtrs(self, mem, n) :
          LET r == reserve(self, mem, n, nc, np)
          IN  /\ self' = r.self
              /\ mem' = r.mem

\* dynamic.truncate(n)
Truncate(n) ==
    /\ state = "live"
    /\ ~view.some
    /\ view' = None
    /\ UNCHANGED <<state, out, panic, nextId, dropVecs, released, hist, cmp, op>>
    /\ \E ub \in UBOutcomes :
          LET r == truncate(self, mem, n, ub)
          IN  /\ self' = r.self
              /\ mem' = r.mem
              /\ chan' = chan \o r.log
              /\ faults' = faults \cup r.faults

\* dynamic.clear()
Clear ==
    /\ state = "live"
    /\ ~view.some
    /\ \E ub \in UBOutcomes :
          LET r == clear(self, mem, ub)
          IN  /\ self' = r.self
              /\ mem' = r.mem
              /\ chan' = chan \o r.log
              /\ faults' = faults \cup r.faults
    /\ view' = None
    /\ UNCHANGED <<state, out, panic, nextId, dropVecs, released, hist, cmp, op>>

\* let value = dynamic.get(i): value borrows dynamic for as long as it lives, so
\* no other call on dynamic is made before ReleaseView
Get(i) ==
    /\ state = "live"
    /\ ~view.some
    /\ UNCHANGED <<self, mem, chan, state, out, nextId, dropVecs, released, faults, hist, cmp, op>>
    /\ view' = get(self, i)
    /\ panic' = IF get_panics(self, i) THEN "at" ELSE panic

\* let value = dynamic.first()
First ==
    /\ state = "live"
    /\ ~view.some
    /\ view' = first(self)
    /\ panic' = IF get_panics(self, 0) THEN "at" ELSE panic
    /\ UNCHANGED <<self, mem, chan, state, out, nextId, dropVecs, released, faults, hist, cmp, op>>

\* value goes out of scope: the borrow of dynamic ends
ReleaseView ==
    /\ state = "live"
    /\ view.some
    /\ view' = None
    /\ UNCHANGED <<self, mem, chan, state, out, panic, nextId, dropVecs, released, faults, hist, cmp, op>>

\* dynamic goes out of scope: impl Drop for AnyVec runs
Drop ==
    /\ state = "live"
    /\ ~view.some
    /\ \E ub \in UBOutcomes :
          LET r == drop(self, mem, ub)
          IN  /\ mem' = r.mem
              /\ chan' = chan \o r.log
              /\ faults' = faults \cup r.faults
    /\ state' = "dropped"
    /\ dropVecs' = dropVecs + 1
    /\ released' = released + 1
    /\ view' = None
    /\ UNCHANGED <<self, out, panic, nextId, hist, cmp, op>>

\* let result: Vec<T> = dynamic.into_vec(): into_vec owns self, so unless self was
\* forgotten its destructor runs when into_vec is left, by return or by panic
IntoVec(T) ==
    /\ state = "live"
    /\ ~view.some
    /\ LET r == into_vec(self, T)
       IN  /\ panic' = r.panic
           /\ out' = r.vec
           /\ state' = IF r.panic = "none" THEN "consumed" ELSE "dropped"
           /\ IF r.forgot
              THEN UNCHANGED <<mem, chan, faults, dropVecs, released>>
              ELSE \E ub \in UBOutcomes :
                      LET d == drop(self, mem, ub)
                      IN  /\ mem' = d.mem
                          /\ chan' = chan \o d.log
                          /\ faults' = faults \cup d.faults
                          /\ dropVecs' = dropVecs + 1
                          /\ released' = released + 1
    /\ view' = None
    /\ UNCHANGED <<self, nextId, hist, cmp, op>>

\* result goes out of scope: the Vec<T> drops its elements and its buffer
DropResult ==
    /\ state = "consumed"
    /\ \E ub \in UBOutcomes :
          LET r == Vec_drop(mem, out, ub)
          IN  /\ mem' = r.mem
              /\ chan' = chan \o r.log
              /\ faults' = faults \cup r.faults
    /\ state' = "released"
    /\ released' = released + 1
    /\ UNCHANGED <<self, out, view, panic, nextId, dropVecs, hist, cmp, op>>

Next ==
    \/ \E T \in Types : \E v \in Vals(T) : Push(T, v)
    \/ \E n \in 0 .. MaxReserve : Reserve(n)
    \/ \E n \in 0 .. (MaxElems + 1) : Truncate(n)
    \/ Clear
    \/ \E i \in (0 .. MaxElems) \cup {FarIndex} : Get(i)
    \/ First
    \/ ReleaseView
    \/ Drop
    \/ \E T \in Types : IntoVec(T)
    \/ DropResult

Spec == Init /\ [][Next]_vars

\* the callers that only push values of the container's own element type
NextTyped ==
    \/ \E v \in Vals(self.vtable.id) : Push(self.vtable.id, v)
    \/ \E n \in 0 .. MaxReserve : Reserve(n)
    \/ \E n \in 0 .. (MaxElems + 1) : Truncate(n)
    \/ Clear
    \/ \E i \in (0 .. MaxElems) \cup {FarIndex} : Get(i)
    \/ First
    \/ ReleaseView
    \/ Drop
    \/ \E T \in Types : IntoVec(T)
    \/ DropResult

SpecTyped == Init /\ [][NextTyped]_vars

----------------------------------------------------------------------------
(* Comparing views: a container built by from_vec, its views, and the values *)
(* they are compared with, as tests::test_get and test_compare_ref_to_value do *)

\* the values views are compared over: zero, whose bytes u64 and f64 share, and
\* NaN, which is not equal to itself
CmpVals(T) ==
    CASE T = "u64" -> {0, 3} [] T = "f64" -> {0, 3, NaN} [] T = "HasDrop" -> {1, 2}

\* the typed vectors of such values, without spare capacity
CmpVecs(T) ==
    {[vec |-> Vec(T, IF Len(vs) = 0 THEN Dangling ELSE 1, Len(vs), Len(vs)),
      elems |-> [i \in 1 .. Len(vs) |-> Elem(T, vs[i], i)]] :
        vs \in UNION {[1 .. l -> CmpVals(T)] : l \in 0 .. MaxInitLen}}

\* let dynamic = AnyVec::from_vec::<T>(c)
InitEq ==
    \E T \in Types : \E c \in CmpVecs(T) :
        Constructed("from_vec", T, c, from_vec(T, c.vec))

\* a caller's local value v of type T
LocalVal(T, v) == Elem(T, v, 0)

\* value == dynamic.get(j)
CompareViews(j) ==
    /\ state = "live"
    /\ view.some
    /\ j < self.length
    /\ LET other == get(self, j)
           r == AnyRef_cmp(mem, view, other)
       IN  cmp' = [op |-> "AnyRef", lhs |-> view, rhs |-> other,
                   result |-> r.result, calls |-> r.calls]
    /\ UNCHANGED <<self, mem, chan, state, out, view, panic, nextId, dropVecs, released,
                   faults, hist, op>>

\* value == Some(AnyRef::new(&v)) for a local v: T
CompareLocal(T, v) ==
    /\ state = "live"
    /\ view.some
    /\ LET other == Some(AnyRef_new(T, LocalVal(T, v)))
           r == AnyRef_cmp(mem, view, other)
       IN  cmp' = [op |-> "AnyRef", lhs |-> view, rhs |-> other,
                   result |-> r.result, calls |-> r.calls]
    /\ UNCHANGED <<self, mem, chan, state, out, view, panic, nextId, dropVecs, released,
                   faults, hist, op>>

\* value == &v for a local v: T
CompareValue(T, v) ==
    /\ state = "live"
    /\ view.some
    /\ LET r == AnyRef_cmp_ref(mem, view, T, LocalVal(T, v))
       IN  cmp' = [op |-> "&T", lhs |-> view, rhs |-> Some(AnyRef_new(T, LocalVal(T, v))),
                   result |-> r.result, calls |-> r.calls]
    /\ UNCHANGED <<self, mem, chan, state, out, view, panic, nextId, dropVecs, released,
                   faults, hist, op>>

NextEq ==
    \/ \E i \in (0 .. MaxElems) \cup {FarIndex} : Get(i)
    \/ First
    \/ ReleaseView
    \/ \E j \in 0 .. MaxElems : CompareViews(j)
    \/ \E T \in Types : \E v \in CmpVals(T) : CompareLocal(T, v)
    \/ \E T \in Types : \E v \in CmpVals(T) : CompareValue(T, v)

SpecEq == InitEq /\ [][NextEq]_vars

----------------------------------------------------------------------------
(* push and truncate step by step, on a machine with bounded integers: every   *)
(* statement of the two bodies is a step, a panic unwinds to the caller, whose *)
(* container is then destroyed, and a failed allocation aborts the process     *)

\* isize::MAX, the most bytes an allocation may have, scaled to the model
IsizeMax == 16 * MaxElems - 1

\* usize::MAX, also the capacity of a Vec of a zero-sized type
UsizeMax == 2 * IsizeMax + 1

\* the element types of the stepwise model: those of the tests and the unit type ()
StepTypes == Types \cup {"unit"}

\* overflow checks are compiled in (debug) or integers wrap (release)
Builds == {"debug", "release"}

\* a + b on usize: the sum, and whether it overflowed
usize_add(a, b) == [sum |-> (a + b) % (UsizeMax + 1), overflow |-> a + b > UsizeMax]

\* how Vec::<T>::reserve(additional) on v goes: nothing to do ("fits"), a
\* reallocation ("grow"), or the panic "capacity overflow" when len + additional
\* overflows usize or its bytes exceed isize::MAX (a zero-sized T cannot grow)
Vec_reserve_outcome(v, additional) ==
    IF v.cap - v.len >= additional THEN "fits"
    ELSE IF \/ size_of(v.ty) = 0
            \/ usize_add(v.len, additional).overflow
            \/ (v.len + additional) * size_of(v.ty) > IsizeMax
         THEN "capacity overflow"
         ELSE "grow"

\* the typed vectors from_vec is given here: those of InitVecs that fit in an
\* allocation, and the vectors of unit values of every length (they need no memory)
StepVecs(T) ==
    IF size_of(T) = 0
    THEN {[vec |-> Vec(T, Dangling, n, UsizeMax), elems |-> <<>>] : n \in 0 .. UsizeMax}
    ELSE {c \in InitVecs(T) : c.vec.cap * size_of(T) <= IsizeMax}

\* let dynamic = AnyVec::from_vec::<T>(c)
InitSteps ==
    \E T \in StepTypes : \E c \in StepVecs(T) :
        Constructed("from_vec", T, c, from_vec(T, c.vec))

\* the caller's frame unwinds or the process stops: the operation is over
Ended(st, why) ==
    /\ state' = st
    /\ panic' = why
    /\ op' = Idle

\* dynamic.push(v) is entered with a value of the element type; the argument of
\* reserve, self.length + 1, is computed
PushStart(v) ==
    /\ state = "live"
    /\ ~view.some
    /\ size_of(self.vtable.id) = 0 \/ nextId <= MaxElems
    /\ LET value == Elem(self.vtable.id, v, nextId)
           size == usize_add(self.length, 1)
       IN  \E build \in Builds :
              IF size.overflow /\ build = "debug"
              THEN /\ Ended("panicked", "overflow")
                   /\ chan' = chan \o DropEvent(value.ty, value, "none")
              ELSE /\ state' = "busy"
                   /\ op' = [Idle EXCEPT !.pc = "reserve", !.value = value, !.size = size.sum]
                   /\ UNCHANGED <<chan, panic>>
    /\ UNCHANGED <<self, mem, out, view, nextId, dropVecs, released, faults, hist, cmp>>

\* self.reserve(self.length + 1): vtable::reserve rebuilds the Vec<T> from the raw
\* parts and reserves; when Vec::reserve panics, the rebuilt Vec is dropped by the
\* unwinding, and then the value push owns
PushReserve ==
    /\ state = "busy"
    /\ op.pc = "reserve"
    /\ LET T == self.vtable.id
           v == Vec(T, self.data, self.length, self.capacity)
           outcome == Vec_reserve_outcome(v, op.size)
       IN  \/ /\ outcome \in {"fits", "grow"}
              /\ \E nc \in GrowCaps(self, op.size), np \in GrowPtrs(self, mem, op.size) :
                    LET r == reserve(self, mem, op.size, nc, np)
                    IN  /\ self' = r.self
                        /\ mem' = r.mem
              /\ op' = [op EXCEPT !.pc = "assert"]
              /\ UNCHANGED <<chan, state, panic, faults, dropVecs, released>>
           \/ /\ outcome = "grow"
              /\ Ended("aborted", "alloc")
              /\ UNCHANGED <<self, mem, chan, faults, dropVecs, released>>
           \/ /\ outcome = "capacity overflow"
              /\ \E ub \in UBOutcomes :
                    LET d == Vec_drop(mem, v, ub)
                    IN  /\ mem' = d.mem
                        /\ chan' = chan \o d.log \o DropEvent(T, op.value, "none")
                        /\ faults' = faults \cup d.faults
              /\ released' = released + 1
              /\ Ended("panicked", "capacity overflow")
              /\ UNCHANGED <<self, dropVecs>>
    /\ UNCHANGED <<out, view, nextId, hist, cmp>>

\* assert!(self.capacity > self.length)
PushAssert ==
    /\ state = "busy"
    /\ op.pc = "assert"
    /\ IF self.capacity > self.length
       THEN /\ op' = [op EXCEPT !.pc = "mv"]
            /\ UNCHANGED <<chan, state, panic>>
       ELSE /\ Ended("panicked", "assert")
            /\ chan' = chan \o DropEvent(self.vtable.id, op.value, "none")
    /\ UNCHANGED <<self, mem, out, view, nextId, dropVecs, released, faults, hist, cmp>>

\* let dest = self.at(self.length); (self.vtable.mv)(src, dest)
PushMove ==
    /\ state = "busy"
    /\ op.pc = "mv"
    /\ LET dest == at(self, self.length)
       IN  IF dest.panics
           THEN /\ Ended("panicked", "at")
                /\ chan' = chan \o DropEvent(self.vtable.id, op.value, "none")
                /\ UNCHANGED <<mem, faults>>
           ELSE /\ op' = [op EXCEPT !.pc = "length"]
                /\ IF size_of(self.vtable.id) = 0
                   THEN UNCHANGED <<mem, faults>>
                   ELSE LET w == vtable_mv(self.vtable.id, mem, op.value, dest.addr)
                        IN  /\ mem' = w.mem
                            /\ faults' = faults \cup w.faults
                /\ UNCHANGED <<chan, state, panic>>
    /\ UNCHANGED <<self, out, view, nextId, dropVecs, released, hist, cmp>>

\* self.length += 1; mem::forget(value): push returns
PushLength ==
    /\ state = "busy"
    /\ op.pc = "length"
    /\ self' = [self EXCEPT !.length = @ + 1]
    /\ state' = "live"
    /\ op' = Idle
    /\ IF size_of(self.vtable.id) = 0
       THEN UNCHANGED <<nextId, hist>>
       ELSE /\ nextId' = nextId + 1
            /\ hist' = [hist EXCEPT !.pushed = Append(@, op.value)]
    /\ UNCHANGED <<mem, chan, out, view, panic, dropVecs, released, faults, cmp>>

\* dynamic.truncate(n) is entered with n <= length (otherwise it returns at once):
\* self.length = n, and drop_slice is called on the ndropped elements from n on
TruncateStart(n) ==
    /\ state = "live"
    /\ ~view.some
    /\ n <= self.length
    /\ self' = [self EXCEPT !.length = n]
    /\ state' = "busy"
    /\ op' = IF size_of(self.vtable.id) = 0
             THEN [Idle EXCEPT !.pc = "drop_slice", !.next = 1, !.hi = 0]
             ELSE [Idle EXCEPT !.pc = "drop_slice", !.next = n + 1, !.hi = self.length]
    /\ UNCHANGED <<mem, chan, out, view, panic, nextId, dropVecs, released, faults, hist, cmp>>

\* drop_in_place of the slice drops its next element; an element destructor may
\* panic, the rest of the slice is dropped all the same, and a second panic
\* aborts the process
DropSliceStep ==
    /\ state = "busy"
    /\ op.pc = "drop_slice"
    /\ op.next <= op.hi
    /\ \E ub \in UBOutcomes, panics \in {FALSE, needs_drop(self.vtable.id)} :
          LET T == self.vtable.id
              d == vtable_drop_slice(T, mem, Addr(self.data, (op.next - 1) * size_of(T)), 1, ub)
          IN  /\ mem' = d.mem
              /\ chan' = chan \o d.log
              /\ faults' = faults \cup d.faults
              /\ IF panics /\ op.panicked
                 THEN Ended("aborted", "double panic")
                 ELSE /\ op' = [op EXCEPT !.next = @ + 1, !.panicked = @ \/ panics]
                      /\ UNCHANGED <<state, panic>>
    /\ UNCHANGED <<self, out, view, nextId, dropVecs, released, hist, cmp>>

\* drop_slice is over: truncate returns, or the panic of a destructor goes on
DropSliceEnd ==
    /\ state = "busy"
    /\ op.pc = "drop_slice"
    /\ op.next > op.hi
    /\ IF op.panicked THEN Ended("panicked", "destructor") ELSE Ended("live", panic)
    /\ UNCHANGED <<self, mem, chan, out, view, nextId, dropVecs, released, faults, hist, cmp>>

\* the panic unwinds the caller's frame: dynamic is destroyed
Unwind ==
    /\ state = "panicked"
    /\ \E ub \in UBOutcomes :
          LET r == drop(self, mem, ub)
          IN  /\ mem' = r.mem
              /\ chan' = chan \o r.log
              /\ faults' = faults \cup r.faults
    /\ state' = "dropped"
    /\ dropVecs' = dropVecs + 1
    /\ released' = released + 1
    /\ UNCHANGED <<self, out, view, panic, nextId, hist, cmp, op>>

NextSteps ==
    \/ \E v \in Vals(self.vtable.id) : PushStart(v)
    \/ PushReserve
    \/ PushAssert
    \/ PushMove
    \/ PushLength
    \/ \E n \in 0 .. (MaxElems + 1) : TruncateStart(n)
    \/ DropSliceStep
    \/ DropSliceEnd
    \/ Unwind
    \/ Drop

SpecSteps == InitSteps /\ [][NextSteps]_vars

----------------------------------------------------------------------------
(* Properties *)

\* the slots of the container's buffer
Slots == SlotsAt(mem, self.data)

\* the elements the container holds, in index order
Contents == [i \in 1 .. self.length |-> SlotOr(Slots, i)]

\* every value stored anywhere on the heap
Stored == UNION {{mem[p].slots[i] : i \in 1 .. Len(mem[p].slots)} : p \in Ptrs}

\* C2: a push::<T> whose T is not the container's element type fails with
\* TypeMismatch and its value is never stored in the container.
C2_WrongTypedPushFails ==
    \A k \in 1 .. Len(hist.pushed) :
        hist.pushed[k].ty # self.vtable.id
            => /\ panic = "TypeMismatch"
               /\ \A e \in Stored : e.uid # hist.pushed[k].uid

\* C3: into_vec::<T> on a container of element type U returns the buffer as a
\* Vec<T> exactly when T = U; otherwise it panics with TypeMismatch and returns no
\* vector.
C3_IntoVecTypeChecked ==
    [][\A T \in Types :
          IntoVec(T) =>
              IF T = self.vtable.id
              THEN /\ state' = "consumed"
                   /\ panic' = "none"
                   /\ out' = Vec(T, self.data, self.length, self.capacity)
              ELSE /\ state' = "dropped"
                   /\ panic' = "TypeMismatch"
                   /\ out' = NoVec]_vars

\* an into_vec of the wrong type has failed
C3_Witness == state = "dropped" /\ panic = "TypeMismatch" /\ out = NoVec

\* the container is as its constructor left it: nothing was pushed, nothing was
\* destroyed, the buffer and its capacity are the ones of the vector it was built from
Untouched ==
    /\ hist.pushed = <<>>
    /\ chan = <<>>
    /\ self.data = hist.vec.ptr
    /\ self.capacity = hist.vec.cap
    /\ nextId = hist.vec.len + 1

\* C4: for every typed vector c of element type T, into_vec::<T>(from_vec::<T>(c))
\* is c: the same buffer with the same elements in the same order, and no element
\* was cloned or destroyed on the way.
C4_RoundTrip ==
    (state = "consumed" /\ Untouched)
        => /\ out = hist.vec
           /\ VecElems(mem, out) = hist.elems
           /\ \A p \in Ptrs : mem[p].alloc <=> (p = hist.vec.ptr /\ hist.vec.cap > 0)
           /\ chan = <<>>
           /\ faults = {}

\* a vector of two elements with spare capacity has made the round trip
C4_Witness ==
    /\ state = "consumed"
    /\ Untouched
    /\ hist.ctor = "from_vec"
    /\ hist.vec.len = 2
    /\ hist.vec.cap > hist.vec.len

\* all the values pushed so far have the container's element type
PushedTyped == \A k \in 1 .. Len(hist.pushed) : hist.pushed[k].ty = self.vtable.id

\* C5: pushing v0..vN-1 of type T, in that order, onto new::<T>() and then calling
\* into_vec::<T>() yields exactly [v0, ..., vN-1], also when pushes reallocate.
C5_PushAccumulation ==
    (state = "consumed" /\ hist.ctor = "new" /\ PushedTyped /\ chan = <<>>)
        => /\ out.ty = self.vtable.id
           /\ out.len = Len(hist.pushed)
           /\ VecElems(mem, out) = hist.pushed

\* two values were pushed onto a new container, the second push moved the buffer,
\* and the container was consumed
C5_Witness ==
    /\ state = "consumed"
    /\ hist.ctor = "new"
    /\ PushedTyped
    /\ chan = <<>>
    /\ Len(hist.pushed) = 2
    /\ out.ptr = 2

\* the addresses that are allocated
Allocated == {p \in Ptrs : mem[p].alloc}

\* the one buffer a vector of capacity cap at p owns
Owned(p, cap) == IF cap > 0 THEN {p} ELSE {}

RECURSIVE Uids(_, _, _)
Uids(slots, lo, hi) ==
    IF lo > hi THEN <<>> ELSE <<SlotOr(slots, lo).uid>> \o Uids(slots, lo + 1, hi)

\* how often id occurs in the sequence q
Count(q, id) == Cardinality({k \in 1 .. Len(q) : q[k] = id})

\* C1: after any sequence of push, reserve, truncate and clear followed by the
\* container's destruction, every element ever placed in the container has been
\* destroyed exactly once, and the destruction of a container of N live elements
\* logs exactly those N elements, in index order.
C1_DropExactlyOnce ==
    /\ [](state = "dropped" =>
            /\ \A id \in 1 .. (nextId - 1) : Count(chan, id) = 1
            /\ Len(chan) = nextId - 1)
    /\ [][Drop => chan' = chan \o Uids(Slots, 1, self.length)]_vars

\* C7: truncate(n) on a container of length L destroys nothing and keeps the length
\* when n >= L; otherwise it destroys exactly the elements at indices [n, L), in
\* ascending index order, and sets the length to n.
C7_Truncate ==
    [][\A n \in 0 .. (MaxElems + 1) :
          Truncate(n) =>
              IF n >= self.length
              THEN chan' = chan /\ self'.length = self.length
              ELSE chan' = chan \o Uids(Slots, n + 1, self.length) /\ self'.length = n]_vars

\* C8: get(i) on a container of length L is Some(view of the element stored at
\* position i, with the container's table) when i < L and None when i >= L; the
\* view at i equals a fresh view over the i-th value and a second get(i).
C8_Get ==
    [][\A i \in (0 .. MaxElems) \cup {FarIndex} :
          Get(i) =>
              IF i >= self.length THEN view' = None
              ELSE /\ view'.some
                   /\ view'.vtable = self.vtable
                   /\ Deref(mem, view') = Contents[i + 1]
                   /\ Option_eq(mem, view', Some(AnyRef_new(Contents[i + 1].ty, Contents[i + 1])))
                   /\ Option_eq(mem, view', get(self, i))]_vars

\* C9: reserve(n) on a container of length L leaves capacity - L >= n, the length
\* L and the elements at [0, L) as they were (none cloned, none destroyed); when
\* capacity - L >= n held before the call, the capacity and the buffer are unchanged.
C9_Reserve ==
    [][\A n \in 0 .. MaxReserve :
          Reserve(n) =>
              /\ self'.capacity - self.length >= n
              /\ self'.length = self.length
              /\ self'.vtable = self.vtable
              /\ [i \in 1 .. self.length |-> SlotOr(SlotsAt(mem', self'.data), i)] = Contents
              /\ chan' = chan
              /\ nextId' = nextId
              /\ faults' = faults
              /\ Cardinality({p \in Ptrs : mem'[p].alloc}) <= 1
              /\ (self.capacity - self.length >= n => self' = self /\ mem' = mem)]_vars

\* a reserve has grown the buffer of a container that holds an element
C9_Witness ==
    /\ state = "live"
    /\ hist.pushed = <<>>
    /\ chan = <<>>
    /\ self.length >= 1
    /\ self.capacity > hist.vec.cap

\* C10: in every state of a live container length <= capacity, every slot in
\* [0, length) holds an initialised element that was not destroyed, and no slot in
\* [length, capacity) holds a live element.
C10_Invariant ==
    state = "live" =>
        /\ self.length <= self.capacity
        /\ Len(Slots) = self.capacity
        /\ self.capacity > 0 => self.data \in Ptrs /\ mem[self.data].alloc
        /\ \A i \in 1 .. self.length : Slots[i].ty # "uninit" /\ Slots[i].live
        /\ \A i \in (self.length + 1) .. self.capacity : ~Slots[i].live

\* a live container holds an element, and a slot past its length holds the remains
\* of an element that a truncate destroyed
C10_Witness ==
    /\ state = "live"
    /\ self.length >= 1
    /\ \E i \in (self.length + 1) .. self.capacity : Slots[i].ty # "uninit"

\* C11: a comparison of a view returns equal exactly when the two operands' tables
\* have the same type identity and that type's own equality holds on the two
\* referenced values (the right operand being another view or a typed value &T);
\* when the tables differ, the table's eq primitive is not called at all, and when
\* they agree it is called once, on the two operands' addresses.
C11_ViewEquality ==
    cmp.op # "none" =>
        LET T == cmp.lhs.vtable.id
            x == Deref(mem, cmp.lhs)
            y == Deref(mem, cmp.rhs)
        IN  /\ cmp.result <=> (T = cmp.rhs.vtable.id /\ PartialEq(T, x.val, y.val))
            /\ T # cmp.rhs.vtable.id => cmp.calls = <<>>
            /\ T = cmp.rhs.vtable.id =>
                   cmp.calls = <<EqCall(T, cmp.lhs.data, cmp.rhs.data)>>

\* a view of 0u64 was compared with the f64 value 0.0, whose bytes are the same,
\* and was found unequal
C11_Witness ==
    /\ cmp.op = "&T"
    /\ cmp.lhs.vtable.id = "u64"
    /\ cmp.rhs.vtable.id = "f64"
    /\ Bytes(Deref(mem, cmp.lhs)) = Bytes(Deref(mem, cmp.rhs))
    /\ ~cmp.result

\* what a truncate to n keeps: the capacity, the buffer's address and size, the set
\* of allocated blocks, and the elements before min(n, length)
TruncateKeeps(n) ==
    /\ self'.capacity = self.capacity
    /\ self'.data = self.data
    /\ self'.vtable = self.vtable
    /\ Len(SlotsAt(mem', self'.data)) = Len(Slots)
    /\ \A p \in Ptrs : mem'[p].alloc = mem[p].alloc
    /\ \A i \in 1 .. Min(n, self.length) : SlotOr(SlotsAt(mem', self'.data), i) = Slots[i]

\* C12: truncate(new_length), for every new_length, and clear leave the capacity
\* and the buffer pointer unchanged (the buffer is neither shrunk nor moved) and
\* leave the elements at [0, min(new_length, length)) unchanged in value and order.
C12_TruncateKeepsCapacity ==
    [][/\ \A n \in 0 .. (MaxElems + 1) : Truncate(n) => TruncateKeeps(n)
       /\ Clear => TruncateKeeps(0)]_vars

\* a truncate cut elements off a container that keeps one element and its capacity
C12_Witness ==
    /\ state = "live"
    /\ hist.pushed = <<>>
    /\ chan # <<>>
    /\ self.length >= 1
    /\ self.length < hist.vec.len
    /\ self.capacity = hist.vec.cap
    /\ self.data = hist.vec.ptr

\* C13: while a view obtained from get/first is alive, no step mutates or consumes
\* the container (no push, reserve, truncate, clear, into_vec or drop happens: the
\* container, its buffer and the heap stay as they are), and so the view's address
\* is that of a slot in [0, length) of the container's current, allocated buffer.
C13_ViewBorrow ==
    /\ [](view.some =>
            /\ state = "live"
            /\ view.vtable = self.vtable
            /\ view.data.ptr = self.data
            /\ self.data \in Ptrs /\ mem[self.data].alloc
            /\ view.data.off % self.vtable.size = 0
            /\ SlotIx(self.vtable.id, view.data.off) \in 1 .. self.length
            /\ Deref(mem, view).live)
    /\ [][view.some =>
            /\ self' = self /\ mem' = mem /\ state' = state
            /\ chan' = chan /\ nextId' = nextId /\ out' = out]_vars

\* a view of the last element of a buffer that pushes have moved
C13_Witness ==
    /\ view.some
    /\ hist.pushed # <<>>
    /\ self.data # hist.vec.ptr
    /\ hist.vec.cap > 0
    /\ SlotIx(self.vtable.id, view.data.off) = self.length

\* C14: a push of a value of the container's element type onto a live container
\* with length < capacity leaves the capacity and the buffer pointer unchanged
\* (it grows only when length = capacity); its only effects are the value written
\* into slot `length` and the length raised by 1.
C14_PushGrowsOnlyWhenFull ==
    [][\A v \in Vals(self.vtable.id) :
          (Push(self.vtable.id, v) /\ self.length < self.capacity) =>
              /\ self'.capacity = self.capacity
              /\ self'.data = self.data
              /\ self'.length = self.length + 1
              /\ SlotsAt(mem', self'.data)
                    = [Slots EXCEPT ![self.length + 1] = Elem(self.vtable.id, v, nextId)]
              /\ \A p \in Ptrs : mem'[p].alloc = mem[p].alloc
              /\ chan' = chan]_vars

\* C17: every push (of a value of any type the API accepts) onto a container of
\* length L writes exactly element_size bytes, the size in the container's table,
\* from offset L * element_size: the write is slot L of the buffer the reserve step
\* left, it ends within capacity * element_size, and every other slot, live or
\* not, is as it was.
C17_PushWriteExtent ==
    [][\A T \in Types : \A v \in Vals(T) :
          Push(T, v) =>
              LET L == self.length
                  size == self.vtable.size
                  value == Elem(T, v, nextId)
                  w == vtable_mv(self'.vtable.id, mem', value, at(self', L).addr).written
                  after == SlotsAt(mem', self'.data)
              IN  /\ w = Extent(self'.data, L * size, (L + 1) * size)
                  /\ w.hi <= self'.capacity * size
                  /\ Len(after) = self'.capacity
                  /\ after[L + 1] = value
                  /\ \A i \in (1 .. self'.capacity) \ {L + 1} : after[i] = SlotOr(Slots, i)]_vars

\* a 16-byte HasDrop was pushed into the second slot of a container of 8-byte u64
C17_Witness ==
    /\ state = "live"
    /\ self.vtable.id = "u64"
    /\ self.length = 2
    /\ Slots[1].ty = "u64"
    /\ Slots[2].ty = "HasDrop"

\* C15: at every step of a push or a truncate, also after a step of it panicked
\* and until the container is destroyed, every slot in [0, length) holds an element
\* that is there and whose destructor has not started.
C15_NoHalfState ==
    (state \in {"live", "busy", "panicked"} /\ self.vtable.size > 0) =>
        \A i \in 1 .. self.length :
            /\ SlotOr(Slots, i).ty # "uninit"
            /\ SlotOr(Slots, i).live

\* C16: no public operation ends in one of the container's internal panics: the
\* assertion capacity > length of push, the bounds check of at.
C16_NoInternalPanic == panic \notin {"assert", "at"}

====
